---- MODULE Spec2Model ----
(***************************************************************************)
(* The resumable workflow execution engine of code_generator/v2:           *)
(* ExecutionManager (execution-manager.py with the methods of              *)
(* execution-manager-extension.py added to it) and                         *)
(* HumanInterventionManager (human-intervention-manager.py), over the four *)
(* tables WorkflowExecution, NodeExecution, HumanInterventionRequest and   *)
(* HumanInterventionResponse.                                              *)
(*                                                                         *)
(* run_execution is a process: it is dispatched as a background task and   *)
(* commits several times while the graph is traversed, so it is modelled   *)
(* one step per commit.  The short handlers commit once and are one action *)
(* each.                                                                   *)
(***************************************************************************)
EXTENDS Integers, Sequences, FiniteSets, TLC

VARIABLES
    workflow,      \* the graph the executions run: order of node invocations, human nodes
    executions,    \* table WorkflowExecution, indexed by id
    nodeExecs,     \* table NodeExecution, indexed by id
    requests,      \* table HumanInterventionRequest, indexed by id
    responses,     \* table HumanInterventionResponse, indexed by id
    runner,        \* the run_execution calls in progress, one slot per call
    clock          \* datetime.now(); it advances when a stamp that is later
                   \* compared (finished_at of a completed node, created_at) is taken

vars == <<workflow, executions, nodeExecs, requests, responses, runner, clock>>

---------------------------------------------------------------------------
(* Bounds of the model. *)

MaxExec == 1
MaxNodeExecs == 3
MaxRequests == 2
MaxRunners == 2
\* Records kept in metadata.human_interventions.
MaxMeta == 1
\* Stored requests a read of the pending list is applied to, and the times at
\* which they were created.
MaxRows == 3
MaxTime == 2

---------------------------------------------------------------------------
(* Values. *)

\* The message of the RuntimeError the node:start callback raises at a human node.
PauseMsg == "Workflow paused for human intervention"

\* Messages of the exceptions a node's own logic may raise.
NodeErrors == {"boom", PauseMsg}

\* Python values stored in the JSON columns.
None == [kind |-> "none"]
Empty == [kind |-> "empty"]
Val(x) == [kind |-> "val", v |-> x]
HumanOut(rd, nt) == [kind |-> "human", human_response |-> rd, human_notes |-> nt]
ErrorOut(msg) == [kind |-> "error", error |-> msg]

\* Python truth of a stored value: None and {} are false.
Truthy(d) == d # None /\ d # Empty

InputData == {Val("in")}
NodeOutputs == {Empty, Val("out")}
ResponseData == {Val("yes")}
ResponseNotes == {"note"}

\* priority=1, expires_in_minutes=60 of the request the callback creates.
CallbackPriority == 1
CallbackExpiresIn == 60
\* priority and expires_in_minutes a caller of the create route passes.
Priorities == {1, 2}
ExpiresIn == {0, 2}

\* The graphs: the order in which graph.invoke visits the nodes from the entry
\* node on, and the nodes flagged Node.is_human_node.
Workflows ==
    { [order |-> <<"A", "B">>, human |-> {}],
      [order |-> <<"H", "B">>, human |-> {"H"}],
      [order |-> <<"A", "H">>, human |-> {"H"}] }

_is_human_node(n) == n \in workflow.human

ExecIds == DOMAIN executions
NodeExecIds == DOMAIN nodeExecs
RequestIds == DOMAIN requests
ResponseIds == DOMAIN responses

Terminal == {"COMPLETED", "FAILED", "ERROR"}

---------------------------------------------------------------------------
(* The handlers as functions of the tables: each gives the value returned   *)
(* and the tables as committed.                                            *)

\* start_execution, the row added.
NewExecution(input) ==
    [status |-> "CREATED", input |-> input, output |-> None,
     finished_at |-> 0, meta |-> <<>>]

start_execution(input) == Append(executions, NewExecution(input))

\* pause_execution without its test of the status: any existing execution.
pause_execution_any_status(e, neid) ==
    IF e \notin ExecIds
    THEN [ret |-> FALSE, executions |-> executions, nodeExecs |-> nodeExecs]
    ELSE [ret |-> TRUE,
          executions |-> [executions EXCEPT ![e].status = "PAUSED"],
          nodeExecs |-> IF neid \in NodeExecIds
                        THEN [nodeExecs EXCEPT ![neid].status = "PAUSED"]
                        ELSE nodeExecs]

\* pause_execution without its assignment execution.status = "PAUSED".
pause_execution_node_only(e, neid) ==
    IF ~(e \in ExecIds /\ executions[e].status \in {"RUNNING", "CREATED"})
    THEN [ret |-> FALSE, executions |-> executions, nodeExecs |-> nodeExecs]
    ELSE [ret |-> TRUE,
          executions |-> executions,
          nodeExecs |-> IF neid \in NodeExecIds
                        THEN [nodeExecs EXCEPT ![neid].status = "PAUSED"]
                        ELSE nodeExecs]

pause_execution(e, neid) ==
    IF ~(e \in ExecIds /\ executions[e].status \in {"RUNNING", "CREATED"})
    THEN [ret |-> FALSE, executions |-> executions, nodeExecs |-> nodeExecs]
    ELSE [ret |-> TRUE,
          executions |-> [executions EXCEPT ![e].status = "PAUSED"],
          nodeExecs |-> IF neid \in NodeExecIds
                        THEN [nodeExecs EXCEPT ![neid].status = "PAUSED"]
                        ELSE nodeExecs]

\* The responses .first() may return for a request (0: none).
FirstResponse(reqid) ==
    LET m == {i \in ResponseIds : responses[i].request_id = reqid}
    IN  IF reqid \in RequestIds /\ m # {} THEN m ELSE {0}

\* resume_execution without its test of the status: any existing execution.
resume_execution_any_status(e, neid, reqid, rs) ==
    IF e \notin ExecIds
    THEN [ret |-> FALSE, executions |-> executions, nodeExecs |-> nodeExecs]
    ELSE [ret |-> TRUE,
          executions |-> [executions EXCEPT ![e].status = "RUNNING"],
          nodeExecs |-> IF neid \in NodeExecIds
                        THEN [nodeExecs EXCEPT ![neid].status = "COMPLETED"]
                        ELSE nodeExecs]

\* The record resume_execution appends to metadata["human_interventions"].
InterventionRecord(neid, reqid, rs) ==
    [request_id |-> reqid, node_execution_id |-> neid,
     response_data |-> responses[rs].data, notes |-> responses[rs].notes]

\* The column WorkflowExecution.metadata at the commit that follows
\* `execution.metadata = metadata`: the list of the map assigned.
metadata_committed(stored, assigned) == assigned

\* resume_execution with the list of records started anew at each call.
resume_execution_overwrites(e, neid, reqid, rs) ==
    IF ~(e \in ExecIds /\ executions[e].status = "PAUSED")
    THEN [ret |-> FALSE, executions |-> executions, nodeExecs |-> nodeExecs]
    ELSE [ret |-> TRUE,
          executions |->
              [executions EXCEPT
                  ![e].status = "RUNNING",
                  ![e].meta =
                      IF reqid \in RequestIds /\ rs \in ResponseIds
                      THEN <<InterventionRecord(neid, reqid, rs)>>
                      ELSE @],
          nodeExecs |-> IF neid \in NodeExecIds
                        THEN [nodeExecs EXCEPT ![neid].status = "COMPLETED"]
                        ELSE nodeExecs]

\* resume_execution up to its commit; rs is the response row the query returned.
resume_execution(e, neid, reqid, rs) ==
    IF ~(e \in ExecIds /\ executions[e].status = "PAUSED")
    THEN [ret |-> FALSE, executions |-> executions, nodeExecs |-> nodeExecs]
    ELSE [ret |-> TRUE,
          executions |->
              [executions EXCEPT
                  ![e].status = "RUNNING",
                  ![e].meta =
                      IF reqid \in RequestIds /\ rs \in ResponseIds
                      THEN metadata_committed(
                               @, Append(@, InterventionRecord(neid, reqid, rs)))
                      ELSE metadata_committed(@, @)],
          nodeExecs |-> IF neid \in NodeExecIds
                        THEN [nodeExecs EXCEPT ![neid].status = "COMPLETED"]
                        ELSE nodeExecs]

\* resume_workflow_execution: the join finds the request's node execution and
\* run, resume_execution is called with their ids, and True is returned.
\* resumed: what resume_execution returned.
resume_workflow_execution(reqid, rs) ==
    IF ~(/\ reqid \in RequestIds
         /\ requests[reqid].node_execution_id \in NodeExecIds
         /\ nodeExecs[requests[reqid].node_execution_id].wid \in ExecIds)
    THEN [ret |-> FALSE, resumed |-> FALSE, executions |-> executions,
          nodeExecs |-> nodeExecs]
    ELSE LET neid == requests[reqid].node_execution_id
             p == resume_execution(nodeExecs[neid].wid, neid, reqid, rs)
         IN  [ret |-> TRUE, resumed |-> p.ret, executions |-> p.executions,
              nodeExecs |-> p.nodeExecs]

\* create_intervention_request, first commit: the request row.
NewRequest(neid, priority, expires_in) ==
    [node_execution_id |-> neid, status |-> "PENDING", created_at |-> clock,
     expires_at |-> clock + expires_in, priority |-> priority]

\* create_intervention_request, second commit: the owning node execution.
MarkWaiting(neid) == [nodeExecs EXCEPT ![neid].status = "WAITING_FOR_HUMAN"]

\* create_intervention_request without its test that the node execution exists.
create_intervention_request_unchecked(neid, priority, expires_in) ==
    [raised |-> FALSE,
     requests |-> Append(requests, NewRequest(neid, priority, expires_in)),
     nodeExecs |-> IF neid \in NodeExecIds THEN MarkWaiting(neid) ELSE nodeExecs]

\* create_intervention_request as a whole call: it raises ValueError for an
\* unknown node execution, before any write.
create_intervention_request(neid, priority, expires_in) ==
    IF neid \notin NodeExecIds
    THEN [raised |-> TRUE, requests |-> requests, nodeExecs |-> nodeExecs]
    ELSE [raised |-> FALSE,
          requests |-> Append(requests, NewRequest(neid, priority, expires_in)),
          nodeExecs |-> MarkWaiting(neid)]

\* submit_response with the request found by its id alone, whatever its status.
submit_response_any_status(reqid, rd, notes) ==
    IF reqid \notin RequestIds
    THEN [ret |-> FALSE, requests |-> requests, responses |-> responses,
          nodeExecs |-> nodeExecs]
    ELSE LET neid == requests[reqid].node_execution_id
         IN  [ret |-> TRUE,
              requests |-> [requests EXCEPT ![reqid].status = "ANSWERED"],
              responses |-> Append(responses,
                                   [request_id |-> reqid, data |-> rd,
                                    notes |-> notes, created_at |-> clock]),
              nodeExecs |->
                  IF neid \in NodeExecIds
                  THEN [nodeExecs EXCEPT ![neid].status = "RESUMING",
                                         ![neid].output = HumanOut(rd, notes)]
                  ELSE nodeExecs]

\* submit_response without its update of the owning node execution.
submit_response_node_untouched(reqid, rd, notes) ==
    IF ~(reqid \in RequestIds /\ requests[reqid].status = "PENDING")
    THEN [ret |-> FALSE, requests |-> requests, responses |-> responses,
          nodeExecs |-> nodeExecs]
    ELSE [ret |-> TRUE,
          requests |-> [requests EXCEPT ![reqid].status = "ANSWERED"],
          responses |-> Append(responses,
                               [request_id |-> reqid, data |-> rd,
                                notes |-> notes, created_at |-> clock]),
          nodeExecs |-> nodeExecs]

\* submit_response after its query has returned the request: what it writes
\* and commits, and its return.
submit_response_writes(reqid, rd, notes) ==
    LET neid == requests[reqid].node_execution_id
    IN  [ret |-> TRUE,
         requests |-> [requests EXCEPT ![reqid].status = "ANSWERED"],
         responses |-> Append(responses,
                              [request_id |-> reqid, data |-> rd,
                               notes |-> notes, created_at |-> clock]),
         nodeExecs |->
             IF neid \in NodeExecIds
             THEN [nodeExecs EXCEPT ![neid].status = "RESUMING",
                                    ![neid].output = HumanOut(rd, notes)]
             ELSE nodeExecs]

submit_response(reqid, rd, notes) ==
    IF ~(reqid \in RequestIds /\ requests[reqid].status = "PENDING")
    THEN [ret |-> FALSE, requests |-> requests, responses |-> responses,
          nodeExecs |-> nodeExecs]
    ELSE submit_response_writes(reqid, rd, notes)

\* The filter without its test of expires_at.
pending_rows_any_age(now) ==
    {q \in RequestIds :
        /\ requests[q].node_execution_id \in NodeExecIds
        /\ nodeExecs[requests[q].node_execution_id].wid \in ExecIds
        /\ requests[q].status = "PENDING"}

\* get_pending_interventions, the filter: the PENDING requests not yet expired
\* at the time now of the read, joined to their node execution and run.
pending_rows(now) ==
    {q \in RequestIds :
        /\ requests[q].node_execution_id \in NodeExecIds
        /\ nodeExecs[requests[q].node_execution_id].wid \in ExecIds
        /\ requests[q].status = "PENDING"
        /\ requests[q].expires_at > now}

\* order_by with the priority ascending.
order_by_priority_asc(a, b) ==
    \/ requests[a].priority < requests[b].priority
    \/ /\ requests[a].priority = requests[b].priority
       /\ requests[a].created_at < requests[b].created_at

\* get_pending_interventions, order_by(priority.desc(), created_at.asc()):
\* row a is placed before row b.
order_by(a, b) ==
    \/ requests[a].priority > requests[b].priority
    \/ /\ requests[a].priority = requests[b].priority
       /\ requests[a].created_at < requests[b].created_at

\* The orders in which the database may return the rows S: each next row is
\* one that no remaining row is placed before.
RECURSIVE ordered_rows(_)
ordered_rows(S) ==
    IF S = {} THEN {<<>>}
    ELSE UNION { {<<q>> \o t : t \in ordered_rows(S \ {q})} :
                    q \in {x \in S : \A y \in S : ~order_by(y, x)} }

\* get_pending_interventions read at time now: the lists of request ids it
\* may return.
get_pending_interventions(now) == ordered_rows(pending_rows(now))

---------------------------------------------------------------------------
(* run_execution: the pieces of its body. *)

CompletedOf(e) ==
    {i \in NodeExecIds : nodeExecs[i].wid = e /\ nodeExecs[i].status = "COMPLETED"}

\* The rows order_by(finished_at.desc()).first() may return (0: no row).  A
\* NULL finished_at sorts first or last under DESC depending on the database.
LastNodeChoices(e) ==
    LET c == CompletedOf(e)
        nulls == {i \in c : nodeExecs[i].finished_at = 0}
        dated == c \ nulls
        latest == {i \in dated :
                      \A j \in dated :
                          nodeExecs[j].finished_at <= nodeExecs[i].finished_at}
    IN  IF c = {} THEN {0}
        ELSE (IF dated # {} THEN latest ELSE nulls) \cup nulls

\* The input handed to graph.invoke; ln is the row the query returned.
resolve_input(e, resume, ln) ==
    IF resume
    THEN IF ln # 0 /\ Truthy(nodeExecs[ln].output)
         THEN nodeExecs[ln].output
         ELSE executions[e].input
    ELSE executions[e].input

\* The inner except without its special case: every exception is an error.
is_pause_signal_never(msg) == FALSE

\* The inner except: is this the exception the callback raised at a human node?
is_pause_signal(msg) == msg = PauseMsg

\* The inner except up to its first commit.
handle_exception(e, msg) ==
    IF is_pause_signal(msg)
    THEN [returned |-> TRUE, executions |-> executions]
    ELSE [returned |-> FALSE,
          executions |-> [executions EXCEPT ![e].status = "FAILED",
                                            ![e].finished_at = clock,
                                            ![e].output = ErrorOut(msg)]]

\* The inner except after its first commit: the run's RUNNING node executions.
fail_running_nodes(e, msg) ==
    [i \in NodeExecIds |->
        IF nodeExecs[i].wid = e /\ nodeExecs[i].status = "RUNNING"
        THEN [nodeExecs[i] EXCEPT !.status = "FAILED", !.finished_at = clock,
                                  !.error = msg]
        ELSE nodeExecs[i]]

\* The outer except: an error outside the inner try.
handle_system_error(e, msg) ==
    [executions EXCEPT ![e].status = "ERROR", ![e].finished_at = clock,
                       ![e].output = ErrorOut(msg)]

\* node:start, the row added.
NewNodeExec(e, n, inputs) ==
    [wid |-> e, node |-> n, status |-> "RUNNING", input |-> inputs,
     output |-> None, finished_at |-> 0, error |-> ""]

\* The node:end query without its filter on the status.
RunningRows_any_status(e, n) ==
    {i \in NodeExecIds : nodeExecs[i].wid = e /\ nodeExecs[i].node = n}

\* node:end, the rows the query for the RUNNING row of this run and node matches.
RunningRows(e, n) ==
    {i \in NodeExecIds : /\ nodeExecs[i].wid = e
                         /\ nodeExecs[i].node = n
                         /\ nodeExecs[i].status = "RUNNING"}

\* node:end, the row completed.
complete_node(i, outputs) ==
    [nodeExecs EXCEPT ![i].status = "COMPLETED", ![i].finished_at = clock,
                      ![i].output = outputs]

\* The end of the inner try: graph.invoke returned result.
complete_execution(e, result) ==
    [executions EXCEPT ![e].status = "COMPLETED", ![e].finished_at = clock,
                       ![e].output = result]

---------------------------------------------------------------------------
(* The run_execution calls in progress. *)

Runners == 1 .. MaxRunners

Idle ==
    [pc |-> "idle", eid |-> 0, resume |-> FALSE, fresh |-> FALSE, reqid |-> 0,
     idx |-> 0, state |-> None, ne |-> 0, err |-> "", cause |-> "",
     outcome |-> ""]

\* The slot a new call takes.
FreeSlot(r) ==
    /\ runner[r].pc = "idle"
    /\ \A q \in Runners : q < r => runner[q].pc # "idle"

AllIdle == \A r \in Runners : runner[r].pc = "idle"

\* The call has returned: what is kept is what the caller knows of it.
Returned(r, outcome, cause) ==
    [runner EXCEPT ![r] = [Idle EXCEPT !.pc = "done",
                                       !.eid = runner[r].eid,
                                       !.resume = runner[r].resume,
                                       !.fresh = runner[r].fresh,
                                       !.reqid = runner[r].reqid,
                                       !.ne = runner[r].ne,
                                       !.cause = cause,
                                       !.outcome = outcome]]

\* run_execution from its entry to the commit of RUNNING.
Entered(r, e, resume, reqid) ==
    [runner EXCEPT ![r] = [Idle EXCEPT !.pc = "load", !.eid = e,
                                       !.resume = resume,
                                       !.fresh = (executions[e].status = "CREATED"),
                                       !.reqid = reqid]]

Init ==
    /\ workflow \in Workflows
    /\ executions = <<>>
    /\ nodeExecs = <<>>
    /\ requests = <<>>
    /\ responses = <<>>
    /\ runner = [r \in Runners |-> Idle]
    /\ clock = 1

---------------------------------------------------------------------------
(* The callers' operations.  seq: the caller is the only one, and calls when *)
(* its call before has returned.                                           *)

Caller(seq) == seq => AllIdle

StartExecution(seq, input) ==
    /\ Caller(seq)
    /\ Len(executions) < MaxExec
    /\ executions' = start_execution(input)
    /\ UNCHANGED <<workflow, nodeExecs, requests, responses, runner, clock>>

\* run_execution(e, resume) up to the commit of RUNNING.
RunExecution(seq, r, e, resume) ==
    /\ Caller(seq)
    /\ FreeSlot(r)
    /\ e \in ExecIds
    /\ executions[e].status \in {"CREATED", "RUNNING"} \/ resume
    /\ executions' = [executions EXCEPT ![e].status = "RUNNING"]
    /\ runner' = Entered(r, e, resume, 0)
    /\ UNCHANGED <<workflow, nodeExecs, requests, responses, clock>>

PauseExecution(seq, e, neid) ==
    LET p == pause_execution(e, neid)
    IN  /\ Caller(seq)
        /\ p.ret
        /\ executions' = p.executions
        /\ nodeExecs' = p.nodeExecs
        /\ UNCHANGED <<workflow, requests, responses, runner, clock>>

\* resume_execution: its commit, then run_execution(e, resume=True), which
\* finds the status RUNNING.
ResumeExecution(seq, r, e, neid, reqid) ==
    /\ Caller(seq)
    /\ FreeSlot(r)
    /\ e \in ExecIds /\ Len(executions[e].meta) < MaxMeta
    /\ \E rs \in FirstResponse(reqid) :
          LET p == resume_execution(e, neid, reqid, rs)
          IN  /\ p.ret
              /\ executions' = p.executions
              /\ nodeExecs' = p.nodeExecs
    /\ runner' = Entered(r, e, TRUE, reqid)
    /\ UNCHANGED <<workflow, requests, responses, clock>>

\* resume_workflow_execution: the join finds the request's node execution and
\* run, and resume_execution is called with their ids.
ResumeWorkflowExecution(seq, r, reqid) ==
    /\ Caller(seq)
    /\ FreeSlot(r)
    /\ \E rs \in FirstResponse(reqid) :
          LET w == resume_workflow_execution(reqid, rs)
              e == nodeExecs[requests[reqid].node_execution_id].wid
          IN  /\ w.ret
              /\ w.resumed
              /\ Len(executions[e].meta) < MaxMeta
              /\ executions' = w.executions
              /\ nodeExecs' = w.nodeExecs
              /\ runner' = Entered(r, e, TRUE, reqid)
    /\ UNCHANGED <<workflow, requests, responses, clock>>

SubmitResponse(seq, reqid, rd, notes) ==
    LET p == submit_response(reqid, rd, notes)
    IN  /\ Caller(seq)
        /\ p.ret
        /\ requests' = p.requests
        /\ responses' = p.responses
        /\ nodeExecs' = p.nodeExecs
        /\ clock' = clock + 1
        /\ UNCHANGED <<workflow, executions, runner>>

\* submit_response on a session of its own, up to the return of its query:
\* the request was found PENDING.
SubmitQuery(r, reqid, rd, notes) ==
    /\ FreeSlot(r)
    /\ reqid \in RequestIds
    /\ requests[reqid].status = "PENDING"
    /\ runner' = [runner EXCEPT ![r] = [Idle EXCEPT !.pc = "submit",
                                                    !.reqid = reqid,
                                                    !.state = rd,
                                                    !.err = notes]]
    /\ UNCHANGED <<workflow, executions, nodeExecs, requests, responses, clock>>

\* submit_response on a session of its own, from the return of its query to
\* its commit and its return of True.
SubmitCommit(r) ==
    /\ runner[r].pc = "submit"
    /\ LET p == submit_response_writes(runner[r].reqid, runner[r].state,
                                       runner[r].err)
       IN  /\ requests' = p.requests
           /\ responses' = p.responses
           /\ nodeExecs' = p.nodeExecs
    /\ clock' = clock + 1
    /\ runner' = Returned(r, "true", "")
    /\ UNCHANGED <<workflow, executions>>

\* The create route: create_intervention_request for any node execution id.
CreateInterventionRequest(seq, neid, priority, expires_in) ==
    LET p == create_intervention_request(neid, priority, expires_in)
    IN  /\ Caller(seq)
        /\ Len(requests) < MaxRequests
        /\ ~p.raised
        /\ requests' = p.requests
        /\ nodeExecs' = p.nodeExecs
        /\ clock' = clock + 1
        /\ UNCHANGED <<workflow, executions, responses, runner>>

---------------------------------------------------------------------------
(* run_execution after the commit of RUNNING, one action per commit. *)

At(r, pc) == runner[r].pc = pc

Node(r) == workflow.order[runner[r].idx]

\* The inner except for msg raised in runner r (cause: who raised it).
Raise(r, msg, cause) ==
    LET h == handle_exception(runner[r].eid, msg)
    IN  /\ executions' = h.executions
        /\ runner' = IF h.returned
                     THEN Returned(r, "paused", cause)
                     ELSE [runner EXCEPT ![r].pc = "failnodes", ![r].err = msg,
                                         ![r].cause = cause]
        /\ clock' = clock

\* The agent module is loaded, get_graph() is called, the input is resolved
\* and graph.invoke is entered.
LoadGraph(r) ==
    /\ At(r, "load")
    /\ LET e == runner[r].eid
       IN  \/ \* exec_module raises: the outer except
              /\ executions' = handle_system_error(e, "boom")
              /\ runner' = Returned(r, "error", "import")
              /\ UNCHANGED <<workflow, nodeExecs, requests, responses, clock>>
           \/ \* get_graph() raises: the inner except
              /\ Raise(r, "boom", "get_graph")
              /\ UNCHANGED <<workflow, nodeExecs, requests, responses>>
           \/ /\ \E ln \in LastNodeChoices(e) :
                    runner' = [runner EXCEPT
                                  ![r].pc = "start", ![r].idx = 1,
                                  ![r].state = resolve_input(e, runner[r].resume, ln)]
              /\ UNCHANGED <<workflow, executions, nodeExecs, requests,
                             responses, clock>>

\* node:start: the NodeExecution row is added and committed.
NodeStart(r) ==
    /\ At(r, "start")
    /\ Len(nodeExecs) < MaxNodeExecs
    /\ nodeExecs' = Append(nodeExecs,
                           NewNodeExec(runner[r].eid, Node(r), runner[r].state))
    /\ runner' = [runner EXCEPT
                     ![r].ne = Len(nodeExecs) + 1,
                     ![r].pc = IF _is_human_node(Node(r)) THEN "hpause"
                               ELSE "invoke"]
    /\ UNCHANGED <<workflow, executions, requests, responses, clock>>

\* node:start at a human node: self.pause_execution(execution_id, node_exec.id).
HumanPause(r) ==
    /\ At(r, "hpause")
    /\ LET p == pause_execution(runner[r].eid, runner[r].ne)
       IN  /\ executions' = p.executions
           /\ nodeExecs' = p.nodeExecs
    /\ runner' = [runner EXCEPT ![r].pc = "hcreate"]
    /\ UNCHANGED <<workflow, requests, responses, clock>>

\* node:start at a human node: create_intervention_request, the request row.
HumanCreateRequest(r) ==
    /\ At(r, "hcreate")
    /\ Len(requests) < MaxRequests
    /\ requests' = Append(requests,
                          NewRequest(runner[r].ne, CallbackPriority,
                                     CallbackExpiresIn))
    /\ clock' = clock + 1
    /\ runner' = [runner EXCEPT ![r].pc = "hwait"]
    /\ UNCHANGED <<workflow, executions, nodeExecs, responses>>

\* node:start at a human node: create_intervention_request marks the node
\* execution, the callback raises and the inner except receives it.
HumanMarkWaiting(r) ==
    /\ At(r, "hwait")
    /\ nodeExecs' = MarkWaiting(runner[r].ne)
    /\ Raise(r, PauseMsg, "human")
    /\ UNCHANGED <<workflow, requests, responses>>

\* The node's own logic runs: it returns its output or raises.
NodeInvoke(r) ==
    /\ At(r, "invoke")
    /\ \/ \E out \in NodeOutputs :
             /\ runner' = [runner EXCEPT ![r].pc = "end", ![r].state = out]
             /\ UNCHANGED <<executions, clock>>
       \/ \E msg \in NodeErrors : Raise(r, msg, "node")
    /\ UNCHANGED <<workflow, nodeExecs, requests, responses>>

\* node:end: the RUNNING row of this run and node, if any, is completed.
NodeEnd(r) ==
    /\ At(r, "end")
    /\ LET m == RunningRows(runner[r].eid, Node(r))
       IN  IF m = {}
           THEN UNCHANGED <<nodeExecs, clock>>
           ELSE /\ \E i \in m : nodeExecs' = complete_node(i, runner[r].state)
                /\ clock' = clock + 1
    /\ runner' = [runner EXCEPT
                     ![r].idx = @ + 1,
                     ![r].pc = IF runner[r].idx = Len(workflow.order)
                               THEN "complete" ELSE "start"]
    /\ UNCHANGED <<workflow, executions, requests, responses>>

\* graph.invoke has returned.
Complete(r) ==
    /\ At(r, "complete")
    /\ executions' = complete_execution(runner[r].eid, runner[r].state)
    /\ runner' = Returned(r, "completed", "")
    /\ UNCHANGED <<workflow, nodeExecs, requests, responses, clock>>

\* The inner except, second commit.
FailNodes(r) ==
    /\ At(r, "failnodes")
    /\ nodeExecs' = fail_running_nodes(runner[r].eid, runner[r].err)
    /\ runner' = Returned(r, "failed", runner[r].cause)
    /\ UNCHANGED <<workflow, executions, requests, responses, clock>>

\* The caller has the call's return.
Return(r) ==
    /\ At(r, "done")
    /\ runner' = [runner EXCEPT ![r] = Idle]
    /\ UNCHANGED <<workflow, executions, nodeExecs, requests, responses, clock>>

\* The process running the background task stops between two commits.
Crash(r) ==
    /\ runner[r].pc \notin {"idle", "done"}
    /\ runner' = [runner EXCEPT ![r] = Idle]
    /\ UNCHANGED <<workflow, executions, nodeExecs, requests, responses, clock>>

---------------------------------------------------------------------------
(* The specifications. *)

Step ==
    \E r \in Runners :
        \/ LoadGraph(r)
        \/ NodeStart(r)
        \/ HumanPause(r)
        \/ HumanCreateRequest(r)
        \/ HumanMarkWaiting(r)
        \/ NodeInvoke(r)
        \/ NodeEnd(r)
        \/ Complete(r)
        \/ FailNodes(r)
        \/ Return(r)

Call(seq) ==
    \/ \E input \in InputData : StartExecution(seq, input)
    \/ \E r \in Runners, e \in ExecIds, resume \in BOOLEAN :
          RunExecution(seq, r, e, resume)
    \/ \E e \in ExecIds, neid \in {0} \cup NodeExecIds :
          PauseExecution(seq, e, neid)
    \/ \E r \in Runners, e \in ExecIds, neid \in {0} \cup NodeExecIds,
          reqid \in {0} \cup RequestIds :
          ResumeExecution(seq, r, e, neid, reqid)
    \/ \E r \in Runners, reqid \in RequestIds :
          ResumeWorkflowExecution(seq, r, reqid)
    \/ \E reqid \in RequestIds, rd \in ResponseData, notes \in ResponseNotes :
          SubmitResponse(seq, reqid, rd, notes)

\* One caller: a call is made when the one before it has returned.
Next == Step \/ Call(TRUE)

Spec == Init /\ [][Next]_vars

\* One caller, and the process of a background task may stop: the next call is
\* made when the call before it has returned or its process has stopped.
NextCrash == Next \/ \E r \in Runners : Crash(r)

SpecCrash == Init /\ [][NextCrash]_vars

\* Callers and background tasks interleave at every commit.
NextConc == Step \/ Call(FALSE) \/ \E r \in Runners : Crash(r)

SpecConc == Init /\ [][NextConc]_vars

\* The intervention desk: one caller who starts and runs executions, creates
\* requests through the create route, answers requests and resumes.
CallDesk(seq) ==
    \/ \E input \in InputData : StartExecution(seq, input)
    \/ \E r \in Runners, e \in ExecIds : RunExecution(seq, r, e, FALSE)
    \/ \E neid \in {0} \cup NodeExecIds, priority \in Priorities,
          expires_in \in ExpiresIn :
          CreateInterventionRequest(seq, neid, priority, expires_in)
    \/ \E reqid \in RequestIds, rd \in ResponseData, notes \in ResponseNotes :
          SubmitResponse(seq, reqid, rd, notes)
    \/ \E r \in Runners, reqid \in RequestIds :
          ResumeWorkflowExecution(seq, r, reqid)

NextDesk == Step \/ CallDesk(TRUE)

SpecDesk == Init /\ [][NextDesk]_vars

\* The pending list over stored requests: one paused run whose human node has
\* requests of any priority and age, created by the callback and through the
\* create route in the order of their ids; the caller answers them.
StoredRows ==
    { [node_execution_id |-> 1, status |-> "PENDING", created_at |-> t,
       expires_at |-> t + expires_in, priority |-> priority] :
        t \in 1 .. MaxTime,
        priority \in {CallbackPriority} \cup Priorities,
        expires_in \in {CallbackExpiresIn} \cup ExpiresIn }

StoredRequests == UNION { [1 .. n -> StoredRows] : n \in 1 .. MaxRows }

InitStored ==
    /\ workflow = [order |-> <<"H", "B">>, human |-> {"H"}]
    /\ executions = <<[status |-> "PAUSED", input |-> Val("in"), output |-> None,
                       finished_at |-> 0, meta |-> <<>>]>>
    /\ nodeExecs = <<[NewNodeExec(1, "H", Val("in")) EXCEPT
                         !.status = "WAITING_FOR_HUMAN"]>>
    /\ requests \in StoredRequests
    /\ \A p, q \in DOMAIN requests :
          p < q => requests[p].created_at <= requests[q].created_at
    /\ responses = <<>>
    /\ runner = [r \in Runners |-> Idle]
    /\ clock \in MaxTime .. MaxTime + 1

NextStored ==
    \E reqid \in RequestIds, rd \in ResponseData, notes \in ResponseNotes :
        SubmitResponse(TRUE, reqid, rd, notes)

SpecStored == InitStored /\ [][NextStored]_vars

---------------------------------------------------------------------------
(* Properties. *)

Done(r) == At(r, "done")

\* C1: for a graph with no human-intervention node, run_execution on a
\* CREATED execution has, when it returns, left the execution in COMPLETED,
\* FAILED or ERROR, whatever the nodes return or raise.
C1_FreshRunEndsTerminal ==
    \A r \in Runners :
        (Done(r) /\ runner[r].fresh /\ workflow.human = {})
            => executions[runner[r].eid].status \in Terminal

\* The response submitted to request q (0: none).
ResponseTo(q) == {i \in ResponseIds : responses[i].request_id = q}

\* The resume of runner r was given an answered request of its run and that
\* request's node execution.
ResumedWithAnswer(r) ==
    LET e == runner[r].eid
        q == runner[r].reqid
    IN  /\ runner[r].resume
        /\ q \in RequestIds
        /\ requests[q].status = "ANSWERED"
        /\ \E k \in DOMAIN executions[e].meta :
              /\ executions[e].meta[k].request_id = q
              /\ executions[e].meta[k].node_execution_id =
                     requests[q].node_execution_id
        /\ nodeExecs[requests[q].node_execution_id].wid = e
        /\ nodeExecs[requests[q].node_execution_id].node = "H"

\* C2: on the graph H (human) -> B, when the resume that follows the response
\* to H's request has returned and no node has failed, the execution is
\* COMPLETED and a NodeExecution of B has the submitted response_data as input.
C2_ResumeAfterResponseCompletes ==
    \A r \in Runners :
        (/\ Done(r)
         /\ workflow.order = <<"H", "B">>
         /\ ResumedWithAnswer(r)
         /\ runner[r].outcome \notin {"failed", "error"})
            => /\ executions[runner[r].eid].status = "COMPLETED"
               /\ \E i \in NodeExecIds, rs \in ResponseTo(runner[r].reqid) :
                     /\ nodeExecs[i].wid = runner[r].eid
                     /\ nodeExecs[i].node = "B"
                     /\ nodeExecs[i].input = responses[rs].data

\* Runner r takes the node:start step.
StartsNode(r) == At(r, "start") /\ runner'[r].pc \in {"invoke", "hpause"}

\* C3: a run entered with resume=true starts no NodeExecution for a node
\* that node:end has already completed in that run.
C3_ResumeSkipsCompleted ==
    [][\A r \in Runners :
          (StartsNode(r) /\ runner[r].resume)
              => ~\E i \in CompletedOf(runner[r].eid) :
                     /\ nodeExecs[i].node = Node(r)
                     /\ nodeExecs[i].finished_at # 0]_vars

\* The COMPLETED NodeExecutions of run e with the greatest finished_at (a
\* finished_at never set is before every one set).
FinishedLast(e) ==
    {i \in CompletedOf(e) :
        \A j \in CompletedOf(e) :
            nodeExecs[j].finished_at <= nodeExecs[i].finished_at}

\* C4: the input handed to graph.invoke is, with resume=true and a COMPLETED
\* NodeExecution in the run, the recorded output_data of the one that finished
\* last (its output_data being recorded), and the original input_data in every
\* other case.
C4_ResumeInput ==
    [][\A r \in Runners :
          (At(r, "load") /\ runner'[r].pc = "start")
              => LET e == runner[r].eid
                 IN  IF runner[r].resume /\ CompletedOf(e) # {}
                     THEN \E i \in FinishedLast(e) :
                             \/ nodeExecs[i].output = None
                             \/ runner'[r].state = nodeExecs[i].output
                     ELSE runner'[r].state = executions[e].input]_vars

PendingFor(ne) ==
    {q \in RequestIds : /\ requests[q].node_execution_id = ne
                        /\ requests[q].status = "PENDING"}

\* C5: when run_execution returns because the traversal reached a human
\* node, the execution is PAUSED, the NodeExecution created for that node is
\* WAITING_FOR_HUMAN and has exactly one PENDING request, and the run has
\* started no node after it.
C5_HumanNodePauses ==
    \A r \in Runners :
        (Done(r) /\ runner[r].cause = "human")
            => LET e == runner[r].eid
                   ne == runner[r].ne
               IN  /\ runner[r].outcome = "paused"
                   /\ executions[e].status = "PAUSED"
                   /\ nodeExecs[ne].wid = e
                   /\ _is_human_node(nodeExecs[ne].node)
                   /\ nodeExecs[ne].status = "WAITING_FOR_HUMAN"
                   /\ Cardinality(PendingFor(ne)) = 1
                   /\ \A i \in NodeExecIds : i > ne => nodeExecs[i].wid # e

C5_Witness ==
    \E r \in Runners :
        /\ Done(r)
        /\ runner[r].cause = "human"
        /\ workflow.order = <<"H", "B">>
        /\ runner[r].resume

\* The steps of the callback at a human node, up to the return of
\* run_execution.
PausePath == {"hpause", "hcreate", "hwait"}

\* A run that began on a CREATED execution has returned at a human node:
\* nothing of a failure is recorded.
C6_FreshPause ==
    \A r \in Runners :
        (Done(r) /\ runner[r].cause = "human" /\ runner[r].fresh)
            => LET e == runner[r].eid
               IN  /\ executions[e].status \notin {"FAILED", "ERROR"}
                   /\ executions[e].output = None
                   /\ executions[e].finished_at = 0
                   /\ \A i \in NodeExecIds :
                         nodeExecs[i].wid = e => nodeExecs[i].status # "FAILED"

\* A step on the pause path writes nothing of a failure.
C6_PauseStep ==
    \A r \in Runners :
        (runner[r].pc \in PausePath /\ runner'[r] # runner[r])
            => LET e == runner[r].eid
               IN  /\ executions'[e].status \notin {"FAILED", "ERROR"}
                   /\ executions'[e].output = executions[e].output
                   /\ executions'[e].finished_at = executions[e].finished_at
                   /\ \A i \in NodeExecIds :
                         nodeExecs'[i].status = "FAILED"
                             => nodeExecs[i].status = "FAILED"
                   /\ runner'[r].pc # "failnodes"
                   /\ runner'[r].pc = "done" => runner'[r].outcome = "paused"

\* C6: reaching a human node is not recorded as a failure: on the way from
\* the pause to the return of run_execution the execution does not become
\* FAILED or ERROR, its output_data and finished_at are not written and no
\* NodeExecution becomes FAILED; after a run begun on a CREATED execution the
\* output_data is empty and finished_at is not set.
C6_PauseIsNotFailure == []C6_FreshPause /\ [][C6_PauseStep]_vars

C6_Witness ==
    \E r \in Runners :
        /\ Done(r)
        /\ runner[r].cause = "human"
        /\ runner[r].fresh
        /\ executions[runner[r].eid].status = "PAUSED"

\* C7: an exception raised by a node's own logic, whatever its message, has
\* made the run FAILED with the error in output_data when run_execution
\* returns.
C7_NodeErrorIsFailure ==
    \A r \in Runners :
        (Done(r) /\ runner[r].cause = "node")
            => /\ runner[r].outcome = "failed"
               /\ executions[runner[r].eid].status = "FAILED"
               /\ executions[runner[r].eid].output.kind = "error"

AllowedExecutionChanges ==
    { <<"CREATED", "RUNNING">>, <<"RUNNING", "PAUSED">>, <<"PAUSED", "RUNNING">>,
      <<"RUNNING", "COMPLETED">>, <<"RUNNING", "FAILED">>, <<"RUNNING", "ERROR">> }

\* C8: every change of a WorkflowExecution's status is CREATED->RUNNING,
\* RUNNING->PAUSED, PAUSED->RUNNING or RUNNING->COMPLETED|FAILED|ERROR.
C8_ExecutionTransitions ==
    [][\A e \in ExecIds :
          executions'[e].status # executions[e].status
              => <<executions[e].status, executions'[e].status>>
                     \in AllowedExecutionChanges]_vars

\* C9: once a WorkflowExecution is COMPLETED, FAILED or ERROR, no call
\* changes its status, its output_data or its NodeExecutions.
C9_TerminalAbsorbing ==
    [][\A e \in ExecIds :
          executions[e].status \in Terminal
              => /\ executions'[e].status = executions[e].status
                 /\ executions'[e].output = executions[e].output
                 /\ \A i \in DOMAIN nodeExecs' :
                       nodeExecs'[i].wid = e
                           => i \in NodeExecIds /\ nodeExecs'[i] = nodeExecs[i]]_vars

AllowedNodeChanges ==
    { <<"RUNNING", "COMPLETED">>, <<"RUNNING", "FAILED">>,
      <<"RUNNING", "WAITING_FOR_HUMAN">>, <<"WAITING_FOR_HUMAN", "RESUMING">>,
      <<"RESUMING", "COMPLETED">> }

\* C10: every change of a NodeExecution's status is RUNNING->COMPLETED,
\* RUNNING->FAILED, RUNNING->WAITING_FOR_HUMAN, WAITING_FOR_HUMAN->RESUMING or
\* RESUMING->COMPLETED.
C10_NodeTransitions ==
    [][\A i \in NodeExecIds :
          nodeExecs'[i].status # nodeExecs[i].status
              => <<nodeExecs[i].status, nodeExecs'[i].status>>
                     \in AllowedNodeChanges]_vars

\* What a caller may submit: the data of the model and one more answer.
AnyResponseData == ResponseData \cup {Val("no")}

\* C11: submit_response on a request that is ANSWERED returns false, adds no
\* response and leaves the request, its response and the owning NodeExecution
\* as they are; every request has at most one response.
C11_AnsweredRejects ==
    \A q \in RequestIds :
        /\ Cardinality(ResponseTo(q)) <= 1
        /\ requests[q].status = "ANSWERED"
              => \A rd \in AnyResponseData, nt \in ResponseNotes :
                    LET p == submit_response(q, rd, nt)
                    IN  /\ ~p.ret
                        /\ p.responses = responses
                        /\ p.requests = requests
                        /\ p.nodeExecs = nodeExecs

C11_Witness ==
    \E q \in RequestIds :
        /\ requests[q].status = "ANSWERED"
        /\ Cardinality(ResponseTo(q)) = 1
        /\ nodeExecs[requests[q].node_execution_id].status = "RESUMING"

\* Ids a caller may pass: those of the rows and one of no row.
AnyExecIds == ExecIds \cup {Len(executions) + 1}
AnyNodeExecIds == {0} \cup NodeExecIds \cup {Len(nodeExecs) + 1}

\* C15: pause_execution on an unknown execution, or on one that is neither
\* RUNNING nor CREATED, returns false and changes no WorkflowExecution and no
\* NodeExecution.
C15_PauseRejects ==
    \A e \in AnyExecIds, neid \in AnyNodeExecIds :
        (e \notin ExecIds \/ executions[e].status \notin {"RUNNING", "CREATED"})
            => LET p == pause_execution(e, neid)
               IN  /\ ~p.ret
                   /\ p.executions = executions
                   /\ p.nodeExecs = nodeExecs

C15_Witness ==
    \E e \in ExecIds, i \in NodeExecIds :
        /\ executions[e].status = "PAUSED"
        /\ nodeExecs[i].wid = e
        /\ nodeExecs[i].status = "WAITING_FOR_HUMAN"
        /\ AllIdle

\* C16: resume_execution on an unknown execution, or on one that is not
\* PAUSED, returns false and changes no status, no metadata and no
\* NodeExecution; no run of the graph is entered.
C16_ResumeRejects ==
    \A e \in AnyExecIds, neid \in AnyNodeExecIds, q \in {0} \cup RequestIds :
        (e \notin ExecIds \/ executions[e].status # "PAUSED")
            => \A rs \in FirstResponse(q) :
                  LET p == resume_execution(e, neid, q, rs)
                  IN  /\ ~p.ret
                      /\ p.executions = executions
                      /\ p.nodeExecs = nodeExecs
                      /\ \A r \in Runners : ~ENABLED ResumeExecution(TRUE, r, e, neid, q)

C16_Witness ==
    \E e \in ExecIds, i \in NodeExecIds :
        /\ executions[e].status \in Terminal
        /\ nodeExecs[i].wid = e
        /\ AllIdle

\* C12: submit_response on a PENDING request whose expires_at has passed
\* returns false: the request stays unanswered and gets no response.
C12_ExpiredRejects ==
    [][\A q \in RequestIds :
          (requests[q].status = "PENDING" /\ requests[q].expires_at <= clock)
              => /\ requests'[q].status = "PENDING"
                 /\ \A i \in DOMAIN responses' :
                       responses'[i].request_id = q => i \in ResponseTo(q)]_vars

\* C13: every list get_pending_interventions may return is in the order of
\* descending priority and, for equal priority, ascending created_at.
C13_PendingSorted ==
    \A s \in get_pending_interventions(clock) :
        \A i, j \in DOMAIN s :
            i < j => \/ requests[s[i]].priority > requests[s[j]].priority
                     \/ /\ requests[s[i]].priority = requests[s[j]].priority
                        /\ requests[s[i]].created_at <= requests[s[j]].created_at

\* A list of three in which the order of the ids is not the order returned,
\* priorities differ and two of equal priority differ in age.
C13_Witness ==
    \E s \in get_pending_interventions(clock) :
        /\ Len(s) = 3
        /\ s[1] > s[2]
        /\ requests[s[1]].priority > requests[s[3]].priority
        /\ requests[s[2]].priority = requests[s[3]].priority
        /\ requests[s[2]].created_at < requests[s[3]].created_at

\* The members of the list s.
Listed(s) == {s[i] : i \in DOMAIN s}

\* C14: every list get_pending_interventions may return holds each request
\* that is PENDING with expires_at later than the time of the read, once, and
\* no other; a request created with expires_in_minutes = 0 is in no list.
C14_PendingExact ==
    \A s \in get_pending_interventions(clock) :
        /\ Listed(s) = {q \in RequestIds : /\ requests[q].status = "PENDING"
                                            /\ requests[q].expires_at > clock}
        /\ Len(s) = Cardinality(Listed(s))
        /\ \A q \in Listed(s) : requests[q].expires_at # requests[q].created_at

C14_Witness ==
    /\ \E q \in RequestIds : /\ requests[q].status = "PENDING"
                              /\ requests[q].expires_at = requests[q].created_at
    /\ \E q \in RequestIds : /\ requests[q].status = "PENDING"
                              /\ requests[q].expires_at > requests[q].created_at
                              /\ requests[q].expires_at = clock
    /\ get_pending_interventions(clock) = {<<>>}

\* C17: each NodeExecution has at most one PENDING request.
C17_OnePendingPerNode ==
    \A ne \in NodeExecIds : Cardinality(PendingFor(ne)) <= 1

\* C18: at most one NodeExecution of a run is RUNNING.
C18_OneRunningPerRun ==
    \A e \in ExecIds :
        Cardinality({i \in NodeExecIds : /\ nodeExecs[i].wid = e
                                          /\ nodeExecs[i].status = "RUNNING"}) <= 1

NonTerminalNode == {"RUNNING", "PAUSED", "WAITING_FOR_HUMAN", "RESUMING"}

\* C19: for each run and node at most one NodeExecution is RUNNING, PAUSED,
\* WAITING_FOR_HUMAN or RESUMING.
C19_OneOpenPerNode ==
    \A e \in ExecIds, n \in {workflow.order[k] : k \in DOMAIN workflow.order} :
        Cardinality({i \in NodeExecIds : /\ nodeExecs[i].wid = e
                                          /\ nodeExecs[i].node = n
                                          /\ nodeExecs[i].status \in NonTerminalNode})
            <= 1

\* run_execution has returned after a node raised: the run is FAILED with
\* the error in output_data, and so is the NodeExecution of that node.
C20_Failed ==
    \A r \in Runners :
        (Done(r) /\ runner[r].cause = "node")
            => LET e == runner[r].eid
               IN  /\ executions[e].status = "FAILED"
                   /\ executions[e].output.kind = "error"
                   /\ nodeExecs[runner[r].ne].status = "FAILED"
                   /\ nodeExecs[runner[r].ne].error = executions[e].output.error
                   /\ \A i \in NodeExecIds :
                         nodeExecs[i].wid = e => nodeExecs[i].status # "RUNNING"

\* The step from the raise of a node to the return: NodeExecutions that are
\* not RUNNING ones of the run are left as they are.
C20_FailStep ==
    \A r \in Runners :
        (runner[r].cause = "node" /\ runner[r].pc = "failnodes"
             /\ runner'[r].pc = "done")
            => \A i \in NodeExecIds :
                  (nodeExecs[i].wid # runner[r].eid \/ nodeExecs[i].status # "RUNNING")
                      => nodeExecs'[i] = nodeExecs[i]

\* C20: when a node raises, the run becomes FAILED with the error in
\* output_data, every RUNNING NodeExecution of the run becomes FAILED with the
\* error recorded, and the other NodeExecutions are left unchanged.
C20_NodeFailureRecorded == []C20_Failed /\ [][C20_FailStep]_vars


\* C21: when run_execution has returned, an error from outside node execution
\* (the agent module could not be loaded, get_graph() raised) has left the run
\* in ERROR, and the run is FAILED only after an error raised by a node
\* invocation.
C21_FailureByOrigin ==
    \A r \in Runners :
        Done(r) =>
            /\ runner[r].cause \in {"import", "get_graph"}
                   => executions[runner[r].eid].status = "ERROR"
            /\ executions[runner[r].eid].status = "FAILED"
                   => runner[r].cause = "node"


---------------------------------------------------------------------------
(* Pause by another caller. *)

\* One caller starts, runs and resumes, each call made when the one before it
\* has returned; another caller calls pause_execution at any commit boundary
\* of a run_execution in progress.
CallPause ==
    \/ \E input \in InputData : StartExecution(TRUE, input)
    \/ \E r \in Runners, e \in ExecIds : RunExecution(TRUE, r, e, FALSE)
    \/ \E e \in ExecIds, neid \in {0} \cup NodeExecIds :
          PauseExecution(FALSE, e, neid)
    \/ \E r \in Runners, e \in ExecIds, neid \in {0} \cup NodeExecIds,
          reqid \in {0} \cup RequestIds :
          ResumeExecution(TRUE, r, e, neid, reqid)

NextPause == Step \/ CallPause

SpecPause == Init /\ [][NextPause]_vars

\* The step is a resume call for execution e: resume_execution, or
\* run_execution(e, resume=True), enters the run.
ResumeCall(e) ==
    \E r \in Runners : /\ runner[r].pc = "idle"
                       /\ runner'[r].pc = "load"
                       /\ runner'[r].eid = e
                       /\ runner'[r].resume

\* C22: over a step that is no resume call, an execution that is PAUSED stays
\* PAUSED, gets no new NodeExecution and has none moved to COMPLETED.
C22_PausedIsNotRunning ==
    [][\A e \in ExecIds :
          (executions[e].status = "PAUSED" /\ ~ResumeCall(e))
              => /\ executions'[e].status = "PAUSED"
                 /\ \A i \in DOMAIN nodeExecs' :
                       nodeExecs'[i].wid = e
                           => /\ i \in NodeExecIds
                              /\ nodeExecs'[i].status = "COMPLETED"
                                     => nodeExecs[i].status = "COMPLETED"]_vars


\* C23: create_intervention_request for a node execution that does not exist
\* fails, adding no request and changing no record; for one that exists it
\* adds one request, PENDING, with expires_at = created_at + expires_in_minutes,
\* leaves the stored requests as they are and sets that node execution, and no
\* other, to WAITING_FOR_HUMAN.
C23_CreateRequest ==
    \A neid \in AnyNodeExecIds, priority \in Priorities, expires_in \in ExpiresIn :
        LET p == create_intervention_request(neid, priority, expires_in)
            n == Len(requests) + 1
        IN  IF neid \notin NodeExecIds
            THEN /\ p.raised
                 /\ p.requests = requests
                 /\ p.nodeExecs = nodeExecs
            ELSE /\ ~p.raised
                 /\ DOMAIN p.requests = 1 .. n
                 /\ \A q \in RequestIds : p.requests[q] = requests[q]
                 /\ p.requests[n].node_execution_id = neid
                 /\ p.requests[n].status = "PENDING"
                 /\ p.requests[n].created_at = clock
                 /\ p.requests[n].expires_at = clock + expires_in
                 /\ p.requests[n].priority = priority
                 /\ DOMAIN p.nodeExecs = NodeExecIds
                 /\ p.nodeExecs[neid] =
                        [nodeExecs[neid] EXCEPT !.status = "WAITING_FOR_HUMAN"]
                 /\ \A i \in NodeExecIds \ {neid} : p.nodeExecs[i] = nodeExecs[i]

\* The create route has added a request to the node execution of a node that
\* is no human node, and a call for an unknown node execution can be made.
C23_Witness ==
    \E q \in RequestIds :
        LET ne == requests[q].node_execution_id
        IN  /\ ~_is_human_node(nodeExecs[ne].node)
            /\ requests[q].status = "PENDING"
            /\ requests[q].expires_at = requests[q].created_at + 2
            /\ nodeExecs[ne].status = "WAITING_FOR_HUMAN"
            /\ Len(requests) < MaxRequests


\* submit_response on a PENDING request, as applied to the tables: it returns
\* true, adds one response, for this request and with the payload, moves this
\* request and no other to ANSWERED and sets the owning node execution and no
\* other to RESUMING with the payload in its output_data.
C24_Effect ==
    \A q \in RequestIds, rd \in AnyResponseData, notes \in ResponseNotes :
        requests[q].status = "PENDING" =>
            LET p == submit_response(q, rd, notes)
                n == Len(responses) + 1
                ne == requests[q].node_execution_id
            IN  /\ p.ret
                /\ DOMAIN p.responses = 1 .. n
                /\ \A i \in ResponseIds : p.responses[i] = responses[i]
                /\ p.responses[n].request_id = q
                /\ p.responses[n].data = rd
                /\ p.responses[n].notes = notes
                /\ p.requests = [requests EXCEPT ![q].status = "ANSWERED"]
                /\ DOMAIN p.nodeExecs = NodeExecIds
                /\ ne \in NodeExecIds
                /\ p.nodeExecs[ne].status = "RESUMING"
                /\ p.nodeExecs[ne].output.kind = "human"
                /\ p.nodeExecs[ne].output.human_response = rd
                /\ p.nodeExecs[ne] = [nodeExecs[ne] EXCEPT !.status = "RESUMING",
                                                          !.output = p.nodeExecs[ne].output]
                /\ \A i \in NodeExecIds \ {ne} : p.nodeExecs[i] = nodeExecs[i]

\* The step of a submit_response that returns true is that one transition,
\* and it leaves the WorkflowExecutions as they are.
C24_SubmitStep ==
    responses' # responses =>
        /\ executions' = executions
        /\ \E q \in RequestIds, rd \in ResponseData, notes \in ResponseNotes :
              LET p == submit_response(q, rd, notes)
              IN  /\ requests[q].status = "PENDING"
                  /\ requests' = p.requests
                  /\ responses' = p.responses
                  /\ nodeExecs' = p.nodeExecs

\* C24: a submit_response that returns true has, in one transition, added
\* exactly one response for the request, moved the request from PENDING to
\* ANSWERED, set the owning NodeExecution to RESUMING with the payload in its
\* output_data, and changed no WorkflowExecution and no other request or
\* NodeExecution.
C24_SubmitFrame == []C24_Effect /\ [][C24_SubmitStep]_vars

\* A response has been submitted for the request of a paused run.
C24_Witness ==
    \E q \in RequestIds, i \in ResponseIds :
        LET ne == requests[q].node_execution_id
        IN  /\ responses[i].request_id = q
            /\ requests[q].status = "ANSWERED"
            /\ nodeExecs[ne].status = "RESUMING"
            /\ nodeExecs[ne].output = HumanOut(responses[i].data, responses[i].notes)
            /\ executions[nodeExecs[ne].wid].status = "PAUSED"


\* resume_execution on a PAUSED execution with the id of an answered request,
\* as applied to the tables: it returns true, sets the status to RUNNING,
\* appends one record of the request, the node execution and the response to
\* human_interventions, keeping the records already there, and marks the given
\* node execution COMPLETED.
C25_Effect ==
    \A e \in ExecIds, neid \in NodeExecIds, q \in RequestIds :
        (executions[e].status = "PAUSED" /\ requests[q].status = "ANSWERED")
            => \A rs \in FirstResponse(q) :
                  LET p == resume_execution(e, neid, q, rs)
                      old == executions[e].meta
                      new == p.executions[e].meta
                  IN  /\ p.ret
                      /\ p.executions[e].status = "RUNNING"
                      /\ Len(new) = Len(old) + 1
                      /\ \A k \in DOMAIN old : new[k] = old[k]
                      /\ rs \in ResponseTo(q)
                      /\ new[Len(new)].request_id = q
                      /\ new[Len(new)].node_execution_id = neid
                      /\ new[Len(new)].response_data = responses[rs].data
                      /\ new[Len(new)].notes = responses[rs].notes
                      /\ p.nodeExecs[neid].status = "COMPLETED"

\* No step removes or changes a record of human_interventions, and a step
\* adds at most one.
C25_MetaStep ==
    \A e \in ExecIds :
        /\ Len(executions'[e].meta) \in {Len(executions[e].meta),
                                         Len(executions[e].meta) + 1}
        /\ \A k \in DOMAIN executions[e].meta :
              executions'[e].meta[k] = executions[e].meta[k]

C26_AtomicTransitions ==
    \A e \in ExecIds :
        /\ executions[e].status = "FAILED"
               => \A i \in NodeExecIds :
                     nodeExecs[i].wid = e => nodeExecs[i].status # "RUNNING"
        /\ executions[e].status = "PAUSED"
               => \A i \in NodeExecIds :
                     (/\ nodeExecs[i].wid = e
                      /\ _is_human_node(nodeExecs[i].node)
                      /\ nodeExecs[i].status \in {"PAUSED", "WAITING_FOR_HUMAN"})
                         => PendingFor(i) # {}


\* While a node's logic runs and when its node:end arrives, the row of its
\* node:start is in the store.
C27_StartPersisted ==
    \A r \in Runners :
        runner[r].pc \in {"invoke", "end"}
            => /\ runner[r].ne \in NodeExecIds
               /\ nodeExecs[runner[r].ne].wid = runner[r].eid
               /\ nodeExecs[runner[r].ne].node = Node(r)

\* The node:end step of a runner: it adds no row and writes no other table;
\* with no RUNNING row of the run and node it changes nothing, otherwise it
\* moves one such row, and no other, to COMPLETED.
C27_EndStep ==
    \A r \in Runners :
        (runner[r].pc = "end" /\ runner'[r].pc # "end")
            => LET m == {i \in NodeExecIds : /\ nodeExecs[i].wid = runner[r].eid
                                              /\ nodeExecs[i].node = Node(r)
                                              /\ nodeExecs[i].status = "RUNNING"}
               IN  /\ DOMAIN nodeExecs' = NodeExecIds
                   /\ executions' = executions
                   /\ requests' = requests
                   /\ responses' = responses
                   /\ IF m = {}
                      THEN nodeExecs' = nodeExecs
                      ELSE \E i \in m :
                              /\ nodeExecs'[i].status = "COMPLETED"
                              /\ nodeExecs'[i].output = runner[r].state
                              /\ \A j \in NodeExecIds \ {i} :
                                    nodeExecs'[j] = nodeExecs[j]

\* C27: the NodeExecution row of node:start is persisted before the node's
\* node:end is applied; node:end moves to COMPLETED only a RUNNING
\* NodeExecution of the same run and node, and with no such row it creates
\* and changes nothing.
C27_StartBeforeEnd == []C27_StartPersisted /\ [][C27_EndStep]_vars

\* graph.invoke has returned: the node:end of A completed its row, and the
\* node:end of B found its row PAUSED by another caller and left it.
C27_Witness ==
    \E r \in Runners :
        /\ At(r, "complete")
        /\ nodeExecs[runner[r].ne].status = "PAUSED"
        /\ \E i \in NodeExecIds : /\ nodeExecs[i].wid = runner[r].eid
                                  /\ nodeExecs[i].node = "A"
                                  /\ nodeExecs[i].status = "COMPLETED"


AnyRequestIds == {0} \cup RequestIds \cup {Len(requests) + 1}

\* C28: resume_workflow_execution returns true only when the resume_execution
\* it called returned true, and false for an unknown request id and for a
\* request whose execution is not PAUSED.
C28_ResumeReportsResult ==
    \A reqid \in AnyRequestIds :
        \A rs \in FirstResponse(reqid) :
            LET w == resume_workflow_execution(reqid, rs)
            IN  /\ w.ret => w.resumed
                /\ reqid \notin RequestIds => ~w.ret
                /\ (/\ reqid \in RequestIds
                    /\ executions[nodeExecs[requests[reqid].node_execution_id].wid]
                           .status # "PAUSED")
                       => ~w.ret


---------------------------------------------------------------------------
(* Answers submitted on sessions of their own. *)

\* One caller starts and runs executions, each call made when the one before
\* it has returned; the respond route is called by any number of callers, each
\* call on its own session, a call's query and its commit being two steps.
CallAnswer ==
    \/ \E input \in InputData : StartExecution(TRUE, input)
    \/ \E r \in Runners, e \in ExecIds : RunExecution(TRUE, r, e, FALSE)
    \/ \E r \in Runners, reqid \in RequestIds, rd \in AnyResponseData,
          notes \in ResponseNotes :
          SubmitQuery(r, reqid, rd, notes)
    \/ \E r \in Runners : SubmitCommit(r)

NextAnswer == Step \/ CallAnswer

SpecAnswer == Init /\ [][NextAnswer]_vars

\* C29: a request has at most one response, and at most one submit_response
\* call for it has returned true.
C29_OneAnswerPerRequest ==
    \A q \in RequestIds :
        /\ Cardinality(ResponseTo(q)) <= 1
        /\ Cardinality({r \in Runners : /\ Done(r)
                                        /\ runner[r].outcome = "true"
                                        /\ runner[r].reqid = q}) <= 1


---------------------------------------------------------------------------
(* Two runs. *)

\* Two executions of the workflow have been started; one caller runs, pauses
\* and resumes them, each call made when the one before it has returned.
InitRuns ==
    /\ workflow \in Workflows
    /\ executions \in {<<NewExecution(i), NewExecution(j)>> : i, j \in InputData}
    /\ nodeExecs = <<>>
    /\ requests = <<>>
    /\ responses = <<>>
    /\ runner = [r \in Runners |-> Idle]
    /\ clock = 1

CallRuns ==
    \/ \E r \in Runners, e \in ExecIds : RunExecution(TRUE, r, e, FALSE)
    \/ \E e \in ExecIds, neid \in {0} \cup NodeExecIds :
          PauseExecution(TRUE, e, neid)
    \/ \E r \in Runners, e \in ExecIds, neid \in {0} \cup NodeExecIds,
          reqid \in {0} \cup RequestIds :
          ResumeExecution(TRUE, r, e, neid, reqid)

NextRuns == Step \/ CallRuns

SpecRuns == InitRuns /\ [][NextRuns]_vars

\* The rows of run e: its NodeExecutions and their requests.
NodeExecsOf(e) == {i \in NodeExecIds : nodeExecs[i].wid = e}
RequestsOf(e) ==
    {q \in RequestIds : requests[q].node_execution_id \in NodeExecsOf(e)}

\* pause_execution and resume_execution called for execution e, as applied to
\* the tables: a NodeExecution they change belongs to e, and no other
\* WorkflowExecution is changed.
C30_CallsKeepToRun ==
    \A e \in ExecIds, neid \in {0} \cup NodeExecIds, q \in {0} \cup RequestIds :
        LET p == pause_execution(e, neid)
        IN  /\ \A i \in NodeExecIds :
                  p.nodeExecs[i] # nodeExecs[i] => nodeExecs[i].wid = e
            /\ \A y \in ExecIds \ {e} : p.executions[y] = executions[y]
            /\ \A rs \in FirstResponse(q) :
                  LET s == resume_execution(e, neid, q, rs)
                  IN  /\ \A i \in NodeExecIds :
                            s.nodeExecs[i] # nodeExecs[i] => nodeExecs[i].wid = e
                      /\ \A y \in ExecIds \ {e} : s.executions[y] = executions[y]

\* A step of run_execution for one execution leaves the WorkflowExecution,
\* the NodeExecutions and the requests of every other execution as they are.
C30_RunStep ==
    \A r \in Runners :
        (runner[r].pc \notin {"idle", "done"} /\ runner'[r] # runner[r])
            => \A y \in ExecIds \ {runner[r].eid} :
                  /\ executions'[y] = executions[y]
                  /\ \A i \in NodeExecsOf(y) : nodeExecs'[i] = nodeExecs[i]
                  /\ \A q \in RequestsOf(y) : requests'[q] = requests[q]

\* C30: pause_execution and resume_execution called for execution X change
\* the status of a NodeExecution only if it belongs to X, and no event,
\* failure or pause of run X changes the WorkflowExecution, NodeExecutions or
\* requests of another run.
C30_RunsIsolated == []C30_CallsKeepToRun /\ [][C30_RunStep]_vars

====
